---- MODULE Spec2Model ----
(***************************************************************************)
(* Scan-to-status-transition workflow of the pilgrim check-in app.         *)
(*                                                                         *)
(* Two coordinators drive the same Session Statistics and the same         *)
(* singleton card reader service:                                          *)
(*   - the store coordinator  (src/src/store/index.ts: startScanning ->    *)
(*     processScan -> updatePilgrimStatus);                                *)
(*   - the scanner screen     (src/app/scanner.tsx with the useNFC hook    *)
(*     and the react-query lookup / mutation).                             *)
(* A behaviour uses one of the two, fixed by the variable driver.          *)
(* Every await of the source is a point where other handlers may run, so   *)
(* every asynchronous call is split into the step that issues it and the   *)
(* step in which it settles.                                               *)
(***************************************************************************)
EXTENDS Integers, FiniteSets, Sequences, TLC

(***************************************************************************)
(* Bounds                                                                  *)
(***************************************************************************)
\* a new scan is started only while totalScanned is below this
MaxTotal == 2
\* concurrently running invocations of the store's startScanning
MaxStoreCalls == 2
\* invocations of the hook's startScanning that have not returned yet
MaxHookCalls == 2
\* invocations of handleConfirmStatusChange waiting for the persist call
MaxConfirms == 2
\* sessions opened from the home screen in one run of the app
MaxSessions == 1
MaxSessionsInARow == 2
\* concurrently running invocations of NFCService.startScanning
MaxScanCalls == 2

(***************************************************************************)
(* Data                                                                    *)
(***************************************************************************)
Pilgrims == {"p1", "p2"}
\* card identifiers presented to the reader; "ZZ" belongs to no record
Cards == {"A1", "ZZ"}
Status == {"onboard", "offboard"}
Modes == {"idle", "onboard", "offboard"}
StoreCalls == 1..MaxStoreCalls
HookCalls == 1..MaxHookCalls
Confirms == 1..MaxConfirms

\* nfc_card_id of each record (unique per record)
CardOf(p) == IF p = "p1" THEN "A1" ELSE "B2"

NoPilgrim == [id |-> "", status |-> ""]
NoResult == [success |-> FALSE, cardId |-> "", error |-> ""]
ScanOk(c) == [success |-> TRUE, cardId |-> c, error |-> ""]
ScanFail(e) == [success |-> FALSE, cardId |-> "", error |-> e]

initialStats ==
  [totalScanned |-> 0, successfulScans |-> 0, failedScans |-> 0,
   onboardCount |-> 0, offboardCount |-> 0,
   startTime |-> FALSE, endTime |-> FALSE]

FreeCall ==
  [pc |-> "free", req |-> "none", cardId |-> "", pilgrim |-> NoPilgrim,
   newStatus |-> ""]

\* useQuery data before any answer (undefined); null is NoPilgrim
Undefined == [id |-> "undefined", status |-> ""]

FreeScan == [pc |-> "free", req |-> "none", live |-> FALSE]

\* a tag as NfcManager.getTag() reports it; an absent field is empty
NoTag == [id |-> <<>>, uid |-> <<>>, serialNumber |-> "", ndef |-> "", type |-> ""]
Tags ==
  { [NoTag EXCEPT !.id = <<4, 161>>],
    [NoTag EXCEPT !.uid = <<177, 2>>, !.type = "NfcA"],
    [NoTag EXCEPT !.serialNumber = "ZZ"],
    [NoTag EXCEPT !.ndef = "A1"],
    [NoTag EXCEPT !.type = "NfcA"],
    NoTag }
ScanCalls == 1..MaxScanCalls
FreeScanCall ==
  [pc |-> "idle", req |-> "none", hung |-> FALSE, tag |-> NoTag,
   tagRead |-> FALSE, released |-> FALSE, result |-> NoResult]
FreeConfirm ==
  [pc |-> "free", card |-> "", id |-> "", status |-> "", snap |-> initialStats,
   live |-> FALSE]
Alert(kind, live) == [kind |-> kind, live |-> live]

VARIABLES
  \* Record Store (remote collection): status of each record
  remoteStatus,
  \* reader enabled on the device (toggled outside the app)
  hwEnabled,
  \* store (zustand) state
  sessionStats, scanningMode, nfc, error, selectedPilgrim, pilgrims,
  \* running invocations of the store's startScanning
  storeCall,
  \* route on top of the stack and the scanner's mode parameter
  screen, mode,
  \* isEnabled as cached by the home screen's useNFC
  homeEnabled,
  \* state of the scanner screen's useNFC
  hook,
  \* state of the scanner screen
  scannedCardId, showPilgrimDetails,
  \* react-query cache of usePilgrimByNfc, per card identifier
  query,
  \* invocations of the hook's startScanning
  hookScan,
  \* invocations of handleConfirmStatusChange awaiting mutateAsync
  confirm,
  \* the alert dialogs on display
  alerts,
  \* sessions opened from the home screen so far
  sessionsOpened,
  \* which coordinator this build wires to the reader: the scanner screen
  \* (the shipped app) or the store's startScanning (no screen calls it);
  \* "adapter" when NFCService is exercised on its own
  driver,
  \* what the device offers: "ok", "unsupported" (no reader) or "expo"
  \* (react-native-nfc-manager could not be loaded, NfcManager is null)
  device,
  \* NFCService.isInitialized
  isInitialized,
  \* invocations of NFCService.startScanning
  scan,
  \* how the last invocation of NFCService.stopScanning from outside ended:
  \* "none" (not called yet), "returned" or "threw"
  lastStop

adapterVars == <<device, isInitialized, scan, lastStop>>
envVars == <<remoteStatus, hwEnabled, driver, adapterVars>>
storeVars == <<sessionStats, scanningMode, nfc, error, selectedPilgrim, pilgrims>>
screenVars == <<screen, mode, homeEnabled, hook, scannedCardId,
                showPilgrimDetails, query, hookScan, confirm, alerts,
                sessionsOpened>>
vars == <<envVars, storeVars, storeCall, screenVars>>

(***************************************************************************)
(* Card Reader Adapter (NFCService)                                        *)
(***************************************************************************)
\* NFCService.mapErrorToMessage: substring tests on the raised message
mapErrorToMessage(msg) ==
  CASE msg = "NFC_NOT_SUPPORTED" -> "NFC_NOT_SUPPORTED"
    [] msg = "NFC_DISABLED" -> "NFC_DISABLED"
    [] msg = "SCAN_TIMEOUT" -> "SCAN_TIMEOUT"
    [] msg = "INVALID_CARD" -> "INVALID_CARD"
    [] msg \in {"cancelled", "canceled"} -> "SCAN_TIMEOUT"
    [] OTHER -> "UNKNOWN_ERROR"

\* what a technology request can raise, by the state of the request:
\* refused  - isEnabled() answered false, no request was issued
\* pending  - the request is live: the timer fires, the tag has no usable
\*            identifier, or the native layer fails
\* cancelled- cancelTechnologyRequest hit it: it is rejected, or the timer
\*            fires first
Raised(req) ==
  CASE req = "refused" -> {"NFC_DISABLED"}
    [] req = "pending" -> {"SCAN_TIMEOUT", "INVALID_CARD", "native failure"}
    [] req = "cancelled" -> {"cancelled", "native failure", "SCAN_TIMEOUT"}
    [] OTHER -> {}

\* the results NFCService.startScanning can return for a request
ScanResults(req) ==
  (IF req = "pending" THEN {ScanOk(c) : c \in Cards} ELSE {})
    \cup {ScanFail(mapErrorToMessage(m)) : m \in Raised(req)}

AllScanResults ==
  UNION {ScanResults(q) : q \in {"refused", "pending", "cancelled"}}

\* NFCService.startScanning up to the technology request
RequestTechnology == IF hwEnabled THEN "pending" ELSE "refused"

\* NfcManager.cancelTechnologyRequest: every live request is cancelled
CancelTechnologyRequest(calls) ==
  [c \in DOMAIN calls |->
     IF calls[c].req = "pending" THEN [calls[c] EXCEPT !.req = "cancelled"]
     ELSE IF calls[c].req = "connected" THEN [calls[c] EXCEPT !.req = "none"]
     ELSE calls[c]]

(***************************************************************************)
(* Record Store (PocketBaseService)                                        *)
(***************************************************************************)
\* getPilgrimByNfcId when the server answers: the record or null
getPilgrimByNfcId(card) ==
  IF \E p \in Pilgrims : CardOf(p) = card
  THEN LET p == CHOOSE q \in Pilgrims : CardOf(q) = card
       IN [id |-> p, status |-> remoteStatus[p]]
  ELSE NoPilgrim

\* status of a failed request: 0 when no response came (network), else the
\* HTTP status of the response
FailureStatus == {0, 400, 404, 500}

\* PocketBaseService.isNotFoundError
isNotFoundError(status) == status = 404

\* the catch block of getPilgrimByNfcId: null for "not found", else it raises
GetPilgrimByNfcIdCatch(status) ==
  IF isNotFoundError(status) THEN "null" ELSE "raise"

\* message of the object handleError builds for a failed request
RecordStoreErrors == {"Network error occurred"}

(***************************************************************************)
(* Store                                                                   *)
(***************************************************************************)
\* store.mapErrorMessage
mapErrorMessage(code) ==
  CASE code = "PILGRIM_NOT_FOUND" -> "msg:PILGRIM_NOT_FOUND"
    [] code = "ALREADY_ONBOARD" -> "msg:ALREADY_ONBOARD"
    [] code = "ALREADY_OFFBOARD" -> "msg:ALREADY_OFFBOARD"
    [] code = "NFC_NOT_SUPPORTED" -> "msg:NFC_NOT_SUPPORTED"
    [] code = "NFC_DISABLED" -> "msg:NFC_DISABLED"
    [] code = "SCAN_TIMEOUT" -> "msg:SCAN_TIMEOUT"
    [] code = "INVALID_CARD" -> "msg:INVALID_CARD"
    [] code = "NETWORK_ERROR" -> "msg:NETWORK_ERROR"
    [] code = "SERVER_ERROR" -> "msg:SERVER_ERROR"
    [] OTHER -> "msg:UNKNOWN_ERROR"

\* a failure count that also stamps the end of the session
IncFailed_EndsSession(s) ==
  [s EXCEPT !.failedScans = @ + 1, !.totalScanned = @ + 1, !.endTime = TRUE]

\* state.sessionStats.failedScans++; state.sessionStats.totalScanned++
IncFailed(s) ==
  [s EXCEPT !.failedScans = @ + 1, !.totalScanned = @ + 1]

\* the records in the order getAllPilgrims sorts them (by creation)
PilgrimOrder == <<"p1", "p2">>

\* pocketbaseService.getAllPilgrims when the server answers
getAllPilgrims ==
  [i \in DOMAIN PilgrimOrder |->
     [id |-> PilgrimOrder[i], status |-> remoteStatus[PilgrimOrder[i]]]]

\* Array.prototype.findIndex on the id; 0 stands for -1
findIndex(list, id) ==
  IF \E i \in DOMAIN list : list[i].id = id
  THEN CHOOSE i \in DOMAIN list :
         list[i].id = id /\ \A j \in DOMAIN list : list[j].id = id => i <= j
  ELSE 0

\* updatePilgrimStatus's write to state.pilgrims
ReplacePilgrim(list, id, updatedPilgrim) ==
  IF findIndex(list, id) # 0
  THEN [list EXCEPT ![findIndex(list, id)] = updatedPilgrim]
  ELSE list

IncSuccess(s, status) ==
  [s EXCEPT !.onboardCount = IF status = "onboard" THEN @ + 1 ELSE @,
            !.offboardCount = IF status = "onboard" THEN @ ELSE @ + 1,
            !.successfulScans = @ + 1,
            !.totalScanned = @ + 1]

\* catch block of updatePilgrimStatus
UpdateStatusCatch(s) == IncFailed(s)
\* catch block of processScan
ProcessScanCatch(s) == IncFailed(s)
\* catch block of startScanning
StartScanningCatch(s) == IncFailed(s)

\* the status check without its offboard branch
ProcessScanValidate_NoOffboard(newStatus, pilgrim) ==
  IF newStatus = "onboard" /\ pilgrim.status = "onboard" THEN "ALREADY_ONBOARD"
  ELSE "Approved"

\* the status check of processScan
ProcessScanValidate(newStatus, pilgrim) ==
  IF newStatus = "onboard" /\ pilgrim.status = "onboard" THEN "ALREADY_ONBOARD"
  ELSE IF newStatus = "offboard" /\ pilgrim.status = "offboard" THEN "ALREADY_OFFBOARD"
  ELSE "Approved"

\* a startSession that zeroes the counters in place, keeping endTime
startSession_KeepsEndTime(m) ==
  /\ scanningMode' = m
  /\ sessionStats' = [initialStats EXCEPT !.startTime = TRUE,
                                          !.endTime = sessionStats.endTime]

startSession(m) ==
  /\ scanningMode' = m
  /\ sessionStats' = [initialStats EXCEPT !.startTime = TRUE]

endSession ==
  /\ scanningMode' = "idle"
  /\ sessionStats' = [sessionStats EXCEPT !.endTime = TRUE]
  /\ nfc' = [nfc EXCEPT !.isScanning = FALSE]

initialHook ==
  [isEnabled |-> FALSE, isScanning |-> FALSE, lastScanResult |-> NoResult,
   error |-> ""]

Init ==
  /\ remoteStatus = [p \in Pilgrims |-> IF p = "p1" THEN "offboard" ELSE "onboard"]
  /\ hwEnabled \in BOOLEAN
  /\ sessionStats = initialStats
  /\ scanningMode = "idle"
  /\ nfc = [isScanning |-> FALSE, lastScanResult |-> NoResult]
  /\ error = ""
  /\ selectedPilgrim = NoPilgrim
  /\ pilgrims = <<>>
  /\ storeCall = [c \in StoreCalls |-> FreeCall]
  /\ screen = "home"
  /\ mode = ""
  /\ homeEnabled = hwEnabled
  /\ hook = initialHook
  /\ scannedCardId = ""
  /\ showPilgrimDetails = FALSE
  /\ query = [c \in Cards |-> [data |-> Undefined, fetching |-> FALSE]]
  /\ hookScan = [h \in HookCalls |-> FreeScan]
  /\ confirm = [k \in Confirms |-> FreeConfirm]
  /\ alerts = {}
  /\ sessionsOpened = 0
  /\ driver \in {"screen", "store"}
  /\ device = "ok"
  /\ isInitialized = FALSE
  /\ scan = [c \in ScanCalls |-> FreeScanCall]
  /\ lastStop = "none"

\* the reader is switched on or off in the device settings
ToggleNfc ==
  /\ hwEnabled' = ~hwEnabled
  /\ UNCHANGED <<remoteStatus, driver, adapterVars, storeVars, storeCall, screenVars>>

(***************************************************************************)
(* Store coordinator                                                       *)
(***************************************************************************)
StoreStartSession(m) ==
  /\ driver = "store"
  /\ startSession(m)
  /\ UNCHANGED <<envVars, nfc, error, selectedPilgrim, pilgrims, storeCall, screenVars>>

StoreEndSession ==
  /\ driver = "store"
  /\ scanningMode # "idle"
  /\ endSession
  /\ UNCHANGED <<envVars, error, selectedPilgrim, pilgrims, storeCall, screenVars>>

\* store.fetchPilgrims: error is cleared, then getAllPilgrims answers with
\* the list or fails
StoreFetchPilgrims(answer) ==
  /\ driver = "store"
  /\ IF answer = "ok"
     THEN /\ pilgrims' = getAllPilgrims
          /\ error' = ""
     ELSE /\ error' \in RecordStoreErrors
          /\ UNCHANGED pilgrims
  /\ UNCHANGED <<envVars, sessionStats, scanningMode, nfc, selectedPilgrim,
                 storeCall, screenVars>>

\* store.startScanning(mode) up to the await of nfcService.startScanning()
StoreStartScanning(c, m) ==
  /\ driver = "store"
  /\ storeCall[c].pc = "free"
  /\ \A d \in StoreCalls : d < c => storeCall[d].pc # "free"
  /\ sessionStats.totalScanned < MaxTotal
  /\ scanningMode' = m
  /\ nfc' = [nfc EXCEPT !.isScanning = TRUE]
  /\ error' = ""
  /\ storeCall' = [storeCall EXCEPT ![c] =
        [FreeCall EXCEPT !.pc = "scan", !.req = RequestTechnology]]
  /\ UNCHANGED <<envVars, sessionStats, selectedPilgrim, pilgrims, screenVars>>

\* nfcService.startScanning() returns r to store.startScanning
StoreScanReturns(c, r) ==
  /\ driver = "store"
  /\ storeCall[c].pc = "scan"
  /\ r \in ScanResults(storeCall[c].req)
  /\ LET released == CancelTechnologyRequest(storeCall) IN
     IF r.success /\ r.cardId # ""
     THEN /\ storeCall' = [released EXCEPT ![c].pc = "lookup", ![c].req = "none",
                                           ![c].cardId = r.cardId]
          /\ nfc' = [isScanning |-> FALSE, lastScanResult |-> r]
          /\ UNCHANGED <<error, sessionStats>>
     ELSE /\ storeCall' = [released EXCEPT ![c] = FreeCall]
          /\ nfc' = [isScanning |-> FALSE, lastScanResult |-> r]
          /\ error' = r.error
          /\ sessionStats' = StartScanningCatch(sessionStats)
  /\ UNCHANGED <<envVars, scanningMode, selectedPilgrim, pilgrims, screenVars>>

\* store.stopScanning
StoreStopScanning ==
  /\ driver = "store"
  /\ storeCall' = CancelTechnologyRequest(storeCall)
  /\ nfc' = [nfc EXCEPT !.isScanning = FALSE]
  /\ scanningMode' = "idle"
  /\ UNCHANGED <<envVars, sessionStats, error, selectedPilgrim, pilgrims, screenVars>>

\* processScan: the lookup failed with a network or server error
StoreLookupFails(c, msg) ==
  /\ driver = "store"
  /\ storeCall[c].pc = "lookup"
  /\ msg \in RecordStoreErrors
  /\ storeCall' = [storeCall EXCEPT ![c] = FreeCall]
  /\ sessionStats' = StartScanningCatch(ProcessScanCatch(sessionStats))
  /\ nfc' = [nfc EXCEPT !.isScanning = FALSE]
  /\ error' = msg
  /\ UNCHANGED <<envVars, scanningMode, selectedPilgrim, pilgrims, screenVars>>

\* processScan: the lookup answered; validate, then issue the persist call
StoreLookupReturns(c) ==
  /\ driver = "store"
  /\ storeCall[c].pc = "lookup"
  /\ LET pilgrim == getPilgrimByNfcId(storeCall[c].cardId)
         newStatus == scanningMode
         verdict == IF pilgrim = NoPilgrim THEN "PILGRIM_NOT_FOUND"
                    ELSE ProcessScanValidate(newStatus, pilgrim)
     IN IF verdict = "Approved"
        THEN /\ storeCall' = [storeCall EXCEPT ![c].pc = "persist",
                                ![c].pilgrim = pilgrim,
                                ![c].newStatus = newStatus]
             /\ UNCHANGED <<sessionStats, nfc, error>>
        ELSE /\ storeCall' = [storeCall EXCEPT ![c] = FreeCall]
             /\ sessionStats' = StartScanningCatch(ProcessScanCatch(sessionStats))
             /\ nfc' = [nfc EXCEPT !.isScanning = FALSE]
             /\ error' = verdict
  /\ UNCHANGED <<envVars, scanningMode, selectedPilgrim, pilgrims, screenVars>>

\* updatePilgrimStatus: the Record Store stored the status
StorePersistSucceeds(c) ==
  /\ driver = "store"
  /\ storeCall[c].pc = "persist"
  /\ storeCall[c].newStatus \in Status
  /\ remoteStatus' = [remoteStatus EXCEPT ![storeCall[c].pilgrim.id] = storeCall[c].newStatus]
  /\ sessionStats' = IncSuccess(sessionStats, storeCall[c].newStatus)
  /\ pilgrims' = ReplacePilgrim(pilgrims, storeCall[c].pilgrim.id,
                             [id |-> storeCall[c].pilgrim.id,
                              status |-> storeCall[c].newStatus])
  /\ selectedPilgrim' = storeCall[c].pilgrim
  /\ storeCall' = [storeCall EXCEPT ![c] = FreeCall]
  /\ UNCHANGED <<hwEnabled, driver, adapterVars, scanningMode, nfc, error, screenVars>>

\* updatePilgrimStatus: the Record Store call failed
StorePersistFails(c, msg) ==
  /\ driver = "store"
  /\ storeCall[c].pc = "persist"
  /\ msg \in RecordStoreErrors
  /\ sessionStats' = StartScanningCatch(ProcessScanCatch(UpdateStatusCatch(sessionStats)))
  /\ nfc' = [nfc EXCEPT !.isScanning = FALSE]
  /\ error' = msg
  /\ storeCall' = [storeCall EXCEPT ![c] = FreeCall]
  /\ UNCHANGED <<envVars, scanningMode, selectedPilgrim, pilgrims, screenVars>>

(***************************************************************************)
(* useNFC hook and react-query lookup                                      *)
(***************************************************************************)
\* the error texts of ARABIC_TEXTS (useNFC.ts 510-520); "" is undefined
ARABIC_TEXTS(key) ==
  CASE key = "ERROR_NETWORK" -> "msg:NETWORK_ERROR"
    [] key = "ERROR_NFC_NOT_SUPPORTED" -> "msg:NFC_NOT_SUPPORTED"
    [] key = "ERROR_NFC_DISABLED" -> "msg:NFC_DISABLED"
    [] key = "ERROR_SCAN_TIMEOUT" -> "msg:SCAN_TIMEOUT"
    [] key = "ERROR_PILGRIM_NOT_FOUND" -> "msg:PILGRIM_NOT_FOUND"
    [] key = "ERROR_ALREADY_ONBOARD" -> "msg:ALREADY_ONBOARD"
    [] key = "ERROR_ALREADY_OFFBOARD" -> "msg:ALREADY_OFFBOARD"
    [] key = "ERROR_INVALID_CARD" -> "msg:INVALID_CARD"
    [] key = "ERROR_SERVER" -> "msg:SERVER_ERROR"
    [] key = "ERROR_UNKNOWN" -> "msg:UNKNOWN_ERROR"
    [] OTHER -> ""

\* useNFC's mapErrorToArabic: errorMap[errorCode] || ARABIC_TEXTS.ERROR_UNKNOWN
mapErrorToArabic(code) ==
  LET key == CASE code = "NFC_NOT_SUPPORTED" -> "ERROR_NFC_NOT_SUPPORTED"
               [] code = "NFC_DISABLED" -> "ERROR_NFC_DISABLED"
               [] code = "NFC_NOT_AVAILABLE_IN_EXPO_GO" ->
                    "ERROR_NFC_NOT_AVAILABLE_IN_EXPO_GO"
               [] code = "SCAN_TIMEOUT" -> "ERROR_SCAN_TIMEOUT"
               [] code = "INVALID_CARD" -> "ERROR_INVALID_CARD"
               [] code = "NETWORK_ERROR" -> "ERROR_NETWORK"
               [] code = "SERVER_ERROR" -> "ERROR_SERVER"
               [] code = "UNKNOWN_ERROR" -> "ERROR_UNKNOWN"
               [] OTHER -> ""
  IN IF ARABIC_TEXTS(key) # "" THEN ARABIC_TEXTS(key)
     ELSE ARABIC_TEXTS("ERROR_UNKNOWN")

\* store.updateSessionStats: Object.assign(state.sessionStats, stats)
updateSessionStats(s, patch) ==
  [k \in DOMAIN s |-> IF k \in DOMAIN patch THEN patch[k] ELSE s[k]]

\* FailedPatch without the totalScanned key
FailedPatch_NoTotal(snap) ==
  [failedScans |-> snap.failedScans + 1]

\* the counters a handler writes for a failure, from the sessionStats it read
FailedPatch(snap) ==
  [failedScans |-> snap.failedScans + 1, totalScanned |-> snap.totalScanned + 1]

\* the counters handleConfirmStatusChange writes after a successful persist
SuccessPatch(snap, m) ==
  IF m = "onboard"
  THEN [successfulScans |-> snap.successfulScans + 1,
        totalScanned |-> snap.totalScanned + 1,
        onboardCount |-> snap.onboardCount + 1]
  ELSE [successfulScans |-> snap.successfulScans + 1,
        totalScanned |-> snap.totalScanned + 1,
        offboardCount |-> snap.offboardCount + 1]

\* usePilgrimByNfc(scannedCardId || ''): data and isLoading
QueryData(q, card) == IF card = "" THEN Undefined ELSE q[card].data
QueryLoading(q, card) ==
  card # "" /\ q[card].fetching /\ q[card].data = Undefined
\* a test against undefined only, which lets null through
Found_NotUndefined(data) == data # Undefined

\* truthiness of scannedPilgrim
Found(data) == data # Undefined /\ data # NoPilgrim

scannedPilgrim == QueryData(query, scannedCardId)
pilgrimLoading == QueryLoading(query, scannedCardId)
\* the details modal is rendered (it covers the scanner's buttons)
ModalShown == showPilgrimDetails /\ Found(scannedPilgrim)
\* useUpdatePilgrimStatus().isPending of the mounted screen
isPending == \E k \in Confirms : confirm[k].pc = "persist" /\ confirm[k].live

\* the observer of a card's query is (re)subscribed: staleTime 0 refetches
Subscribe(q, card) ==
  IF card = "" THEN q ELSE [q EXCEPT ![card].fetching = TRUE]

\* the effect without its updateSessionStats call
PilgrimEffect_NoCount(card, q, show, al, s) ==
  IF card # "" /\ ~QueryLoading(q, card)
  THEN IF Found(QueryData(q, card))
       THEN [show |-> TRUE, alert |-> al, stats |-> s]
       ELSE [show |-> show,
             alert |-> al \cup {Alert("PILGRIM_NOT_FOUND", TRUE)},
             stats |-> s]
  ELSE [show |-> show, alert |-> al, stats |-> s]

\* the found / not-found effect of the scanner screen
\* (deps: scannedCardId, scannedPilgrim, pilgrimLoading)
PilgrimEffect(card, q, show, al, s) ==
  IF card # "" /\ ~QueryLoading(q, card)
  THEN IF Found(QueryData(q, card))
       THEN [show |-> TRUE, alert |-> al, stats |-> s]
       ELSE [show |-> show,
             alert |-> al \cup {Alert("PILGRIM_NOT_FOUND", TRUE)},
             stats |-> updateSessionStats(s, FailedPatch(s))]
  ELSE [show |-> show, alert |-> al, stats |-> s]

Deps(card, q) == <<card, QueryData(q, card), QueryLoading(q, card)>>

\* the effect runs when one of its deps changed in this render
RunPilgrimEffect(card, q, show, al, s) ==
  IF Deps(card, q) # Deps(scannedCardId, query)
  THEN PilgrimEffect(card, q, show, al, s)
  ELSE [show |-> show, alert |-> al, stats |-> s]

\* the status check without its onboard branch
ConfirmValidate_NoOnboard(m, pilgrim) ==
  IF m = "offboard" /\ pilgrim.status = "offboard" THEN "ALREADY_OFFBOARD"
  ELSE "Approved"

\* the status check of handleConfirmStatusChange
ConfirmValidate(m, pilgrim) ==
  IF m = "onboard" /\ pilgrim.status = "onboard" THEN "ALREADY_ONBOARD"
  ELSE IF m = "offboard" /\ pilgrim.status = "offboard" THEN "ALREADY_OFFBOARD"
  ELSE "Approved"

\* the confirm button of the modal: TouchableOpacity disabled={disabled || loading}
ConfirmEnabled == ~isPending

\* the scanner screen leaves the stack: its state is dropped, handlers that
\* are awaiting keep running, and useNFC's cleanup runs nfcService.cleanup()
Unmount ==
  /\ screen' = "home"
  /\ mode' = ""
  /\ hook' = initialHook
  /\ scannedCardId' = ""
  /\ showPilgrimDetails' = FALSE
  /\ hookScan' = [h \in HookCalls |->
        [CancelTechnologyRequest(hookScan)[h] EXCEPT !.live = FALSE]]
  /\ storeCall' = CancelTechnologyRequest(storeCall)
  /\ confirm' = [k \in Confirms |-> [confirm[k] EXCEPT !.live = FALSE]]

\* router.back()
Back(al) ==
  IF screen = "scanner"
  THEN /\ Unmount
       /\ alerts' = {Alert(a.kind, FALSE) : a \in al}
  ELSE /\ alerts' = al
       /\ UNCHANGED <<screen, mode, hook, scannedCardId, showPilgrimDetails,
                      hookScan, storeCall, confirm>>

(***************************************************************************)
(* Home screen                                                             *)
(***************************************************************************)
\* handleRefresh -> checkStatus
HomeCheckStatus ==
  /\ driver = "screen"
  /\ screen = "home"
  /\ alerts = {}
  /\ homeEnabled' = hwEnabled
  /\ UNCHANGED <<envVars, storeVars, storeCall, screen, mode, hook,
                 scannedCardId, showPilgrimDetails, query, hookScan, confirm, alerts, sessionsOpened>>

\* handleStartOnboard / handleStartOffboard, then the scanner screen mounts
\* and its useNFC runs initialize()
HomeStartSession(m) ==
  /\ driver = "screen"
  /\ screen = "home"
  /\ alerts = {}
  /\ homeEnabled
  /\ sessionsOpened < MaxSessions
  /\ sessionsOpened' = sessionsOpened + 1
  /\ startSession(m)
  /\ screen' = "scanner"
  /\ mode' = m
  /\ hook' = [initialHook EXCEPT !.isEnabled = hwEnabled]
  /\ scannedCardId' = ""
  /\ showPilgrimDetails' = FALSE
  /\ UNCHANGED <<envVars, nfc, error, selectedPilgrim, pilgrims, storeCall, homeEnabled,
                 query, hookScan, confirm, alerts>>

(***************************************************************************)
(* Scanner screen                                                          *)
(***************************************************************************)
\* useNFC's mount effect runs initialize() again after a render (its deps hold
\* startScanning, which is rebuilt whenever options is a new object)
HookInitialize ==
  /\ driver = "screen"
  /\ screen = "scanner"
  /\ hook.isEnabled # hwEnabled
  /\ hook' = [hook EXCEPT !.isEnabled = hwEnabled]
  /\ UNCHANGED <<envVars, storeVars, storeCall, screen, mode, homeEnabled,
                 scannedCardId, showPilgrimDetails, query, hookScan, confirm,
                 alerts, sessionsOpened>>

\* handleStartScan -> useNFC.startScanning up to the await of the service
HandleStartScan(h) ==
  /\ driver = "screen"
  /\ screen = "scanner"
  /\ alerts = {}
  /\ ~hook.isScanning
  /\ ~ModalShown
  /\ ~pilgrimLoading
  /\ sessionStats.totalScanned < MaxTotal
  /\ hookScan[h].pc = "free"
  /\ \A g \in HookCalls : g < h => hookScan[g].pc # "free"
  \* (the prompt to open the device settings changes no state: left out)
  /\ scannedCardId' = ""
  /\ showPilgrimDetails' = FALSE
  /\ IF ~hook.isEnabled
     THEN /\ hook' = [hook EXCEPT !.error = "msg:NFC_DISABLED"]
          /\ UNCHANGED hookScan
     ELSE /\ hook' = [hook EXCEPT !.isScanning = TRUE, !.error = ""]
          /\ hookScan' = [hookScan EXCEPT ![h] =
                [pc |-> "scan", req |-> RequestTechnology, live |-> TRUE]]
  /\ UNCHANGED <<envVars, storeVars, storeCall, screen, mode, homeEnabled,
                 query, confirm, alerts, sessionsOpened>>

\* a stopScanning that cancels the request and leaves the flag as it was
HandleStopScan_KeepsFlag ==
  /\ driver = "screen"
  /\ screen = "scanner"
  /\ alerts = {}
  /\ hook.isScanning
  /\ ~ModalShown
  /\ ~pilgrimLoading
  /\ hookScan' = CancelTechnologyRequest(hookScan)
  /\ storeCall' = CancelTechnologyRequest(storeCall)
  /\ UNCHANGED <<envVars, storeVars, screen, mode, homeEnabled, hook,
                 scannedCardId, showPilgrimDetails, query, confirm, alerts,
                 sessionsOpened>>

\* handleStopScan -> useNFC.stopScanning
HandleStopScan ==
  /\ driver = "screen"
  /\ screen = "scanner"
  /\ alerts = {}
  /\ hook.isScanning
  /\ ~ModalShown
  /\ ~pilgrimLoading
  /\ hookScan' = CancelTechnologyRequest(hookScan)
  /\ storeCall' = CancelTechnologyRequest(storeCall)
  /\ hook' = [hook EXCEPT !.isScanning = FALSE]
  /\ UNCHANGED <<envVars, storeVars, screen, mode, homeEnabled, scannedCardId,
                 showPilgrimDetails, query, confirm, alerts, sessionsOpened>>

\* nfcService.startScanning() returns r to useNFC.startScanning; the
\* scan-result effect of the screen runs on the new lastScanResult
HookScanReturns(h, r) ==
  /\ driver = "screen"
  /\ hookScan[h].pc = "scan"
  /\ r \in ScanResults(hookScan[h].req)
  /\ hookScan' = [CancelTechnologyRequest(hookScan) EXCEPT ![h] = FreeScan]
  /\ storeCall' = CancelTechnologyRequest(storeCall)
  /\ IF ~hookScan[h].live
     THEN UNCHANGED <<hook, scannedCardId, showPilgrimDetails, query, alerts,
                      sessionStats>>
     ELSE /\ hook' = [hook EXCEPT !.isScanning = FALSE,
                                  !.lastScanResult = r,
                                  !.error = IF r.success THEN @
                                            ELSE mapErrorToArabic(r.error)]
          /\ IF r.success /\ r.cardId # ""
             THEN LET q == IF r.cardId = scannedCardId THEN query
                           ELSE Subscribe(query, r.cardId)
                      e == RunPilgrimEffect(r.cardId, q, showPilgrimDetails,
                                            alerts, sessionStats)
                  IN /\ scannedCardId' = r.cardId
                     /\ query' = q
                     /\ showPilgrimDetails' = e.show
                     /\ alerts' = e.alert
                     /\ sessionStats' = e.stats
             ELSE /\ sessionStats' =
                       updateSessionStats(sessionStats, FailedPatch(sessionStats))
                  /\ UNCHANGED <<scannedCardId, showPilgrimDetails, query, alerts>>
  /\ UNCHANGED <<envVars, scanningMode, nfc, error, selectedPilgrim, pilgrims, screen,
                 mode, homeEnabled, confirm, sessionsOpened>>

\* the lookup of a card settles with the Record Store's answer
LookupReturns(card) ==
  /\ driver = "screen"
  /\ query[card].fetching
  /\ LET q == [query EXCEPT ![card] =
                 [data |-> getPilgrimByNfcId(card), fetching |-> FALSE]]
         e == RunPilgrimEffect(scannedCardId, q, showPilgrimDetails, alerts,
                               sessionStats)
     IN /\ query' = q
        /\ showPilgrimDetails' = e.show
        /\ alerts' = e.alert
        /\ sessionStats' = e.stats
  /\ UNCHANGED <<envVars, scanningMode, nfc, error, selectedPilgrim, pilgrims, storeCall,
                 screen, mode, homeEnabled, hook, scannedCardId, hookScan, confirm, sessionsOpened>>

\* the lookup of a card fails (after its retries); cached data is kept
LookupFails(card) ==
  /\ driver = "screen"
  /\ query[card].fetching
  /\ LET q == [query EXCEPT ![card].fetching = FALSE]
         e == RunPilgrimEffect(scannedCardId, q, showPilgrimDetails, alerts,
                               sessionStats)
     IN /\ query' = q
        /\ showPilgrimDetails' = e.show
        /\ alerts' = e.alert
        /\ sessionStats' = e.stats
  /\ UNCHANGED <<envVars, scanningMode, nfc, error, selectedPilgrim, pilgrims, storeCall,
                 screen, mode, homeEnabled, hook, scannedCardId, hookScan, confirm, sessionsOpened>>

\* handleConfirmStatusChange up to the await of mutateAsync
HandleConfirm(k) ==
  /\ driver = "screen"
  /\ screen = "scanner"
  /\ alerts = {}
  /\ ModalShown
  /\ ConfirmEnabled
  /\ sessionStats.totalScanned < MaxTotal
  /\ confirm[k].pc = "free"
  /\ \A j \in Confirms : j < k => confirm[j].pc # "free"
  /\ LET verdict == ConfirmValidate(mode, scannedPilgrim)
     IN IF verdict = "Approved"
        THEN /\ confirm' = [confirm EXCEPT ![k] =
                  [pc |-> "persist", card |-> scannedCardId,
                   id |-> scannedPilgrim.id, status |-> mode,
                   snap |-> sessionStats, live |-> TRUE]]
             /\ UNCHANGED alerts
        ELSE /\ alerts' = alerts \cup {Alert(verdict, TRUE)}
             /\ UNCHANGED confirm
  /\ UNCHANGED <<envVars, storeVars, storeCall, screen, mode, homeEnabled, hook,
                 scannedCardId, showPilgrimDetails, query, hookScan, sessionsOpened>>

\* mutateAsync resolves: the handler writes the counters it computed from
\* the sessionStats of the render in which the button was pressed
ConfirmPersistSucceeds(k) ==
  /\ driver = "screen"
  /\ confirm[k].pc = "persist"
  /\ remoteStatus' = [remoteStatus EXCEPT ![confirm[k].id] = confirm[k].status]
  /\ sessionStats' = updateSessionStats(sessionStats,
                        SuccessPatch(confirm[k].snap, confirm[k].status))
  /\ alerts' = alerts \cup {Alert("SUCCESS", confirm[k].live)}
  /\ confirm' = [confirm EXCEPT ![k] = FreeConfirm]
  /\ UNCHANGED <<hwEnabled, driver, adapterVars, scanningMode, nfc, error, selectedPilgrim, pilgrims, storeCall,
                 screen, mode, homeEnabled, hook, scannedCardId,
                 showPilgrimDetails, query, hookScan, sessionsOpened>>

\* mutateAsync rejects (after its retry)
ConfirmPersistFails(k) ==
  /\ driver = "screen"
  /\ confirm[k].pc = "persist"
  /\ sessionStats' = updateSessionStats(sessionStats, FailedPatch(confirm[k].snap))
  /\ alerts' = alerts \cup {Alert("PERSIST_ERROR", confirm[k].live)}
  /\ confirm' = [confirm EXCEPT ![k] = FreeConfirm]
  /\ UNCHANGED <<envVars, scanningMode, nfc, error, selectedPilgrim, pilgrims, storeCall,
                 screen, mode, homeEnabled, hook, scannedCardId,
                 showPilgrimDetails, query, hookScan, sessionsOpened>>

\* the cancel button of the details modal
ModalCancel ==
  /\ driver = "screen"
  /\ screen = "scanner"
  /\ alerts = {}
  /\ ModalShown
  /\ scannedCardId' = ""
  /\ showPilgrimDetails' = FALSE
  /\ UNCHANGED <<envVars, storeVars, storeCall, screen, mode, homeEnabled, hook,
                 query, hookScan, confirm, alerts, sessionsOpened>>

\* an alert with the default button is dismissed
AlertOk(a) ==
  /\ driver = "screen"
  /\ a \in alerts
  /\ a.kind \in {"ALREADY_ONBOARD", "ALREADY_OFFBOARD", "PERSIST_ERROR"}
  /\ alerts' = alerts \ {a}
  /\ UNCHANGED <<envVars, storeVars, storeCall, screen, mode, homeEnabled, hook,
                 scannedCardId, showPilgrimDetails, query, hookScan, confirm,
                 sessionsOpened>>

\* "retry" of the not-found alert, "scan another" of the success alert
AlertAgain(a) ==
  /\ driver = "screen"
  /\ a \in alerts
  /\ a.kind \in {"PILGRIM_NOT_FOUND", "SUCCESS"}
  /\ alerts' = alerts \ {a}
  /\ IF a.live
     THEN /\ scannedCardId' = ""
          /\ showPilgrimDetails' =
               IF a.kind = "SUCCESS" THEN FALSE ELSE showPilgrimDetails
     ELSE UNCHANGED <<scannedCardId, showPilgrimDetails>>
  /\ UNCHANGED <<envVars, storeVars, storeCall, screen, mode, homeEnabled, hook,
                 query, hookScan, confirm, sessionsOpened>>

\* "cancel" of the not-found alert (handleCancel), "close" of the success
\* alert: endSession(); router.back()
AlertEnd(a) ==
  /\ driver = "screen"
  /\ a \in alerts
  /\ a.kind \in {"PILGRIM_NOT_FOUND", "SUCCESS"}
  /\ endSession
  /\ Back(alerts \ {a})
  /\ UNCHANGED <<envVars, error, selectedPilgrim, pilgrims, homeEnabled, query,
                 sessionsOpened>>

\* the end-session button: handleCancel
HandleCancel ==
  /\ driver = "screen"
  /\ screen = "scanner"
  /\ alerts = {}
  /\ ~pilgrimLoading
  /\ endSession
  /\ Back(alerts)
  /\ UNCHANGED <<envVars, error, selectedPilgrim, pilgrims, homeEnabled, query, sessionsOpened>>

\* the back button of the scanner's header (or the system back gesture): the
\* stack pops the screen, no handler of the screen runs
NavigateBack ==
  /\ driver = "screen"
  /\ screen = "scanner"
  /\ alerts = {}
  /\ Back(alerts)
  /\ UNCHANGED <<envVars, storeVars, homeEnabled, query, sessionsOpened>>

Next ==
  \/ ToggleNfc
  \/ \E m \in Status : StoreStartSession(m)
  \/ StoreEndSession
  \/ \E c \in StoreCalls, m \in Status : StoreStartScanning(c, m)
  \/ \E c \in StoreCalls, r \in AllScanResults : StoreScanReturns(c, r)
  \/ StoreStopScanning
  \/ \E c \in StoreCalls, msg \in RecordStoreErrors : StoreLookupFails(c, msg)
  \/ \E c \in StoreCalls : StoreLookupReturns(c)
  \/ \E c \in StoreCalls : StorePersistSucceeds(c)
  \/ \E c \in StoreCalls, msg \in RecordStoreErrors : StorePersistFails(c, msg)
  \/ HomeCheckStatus
  \/ \E m \in Status : HomeStartSession(m)
  \/ HookInitialize
  \/ \E h \in HookCalls : HandleStartScan(h)
  \/ HandleStopScan
  \/ \E h \in HookCalls, r \in AllScanResults : HookScanReturns(h, r)
  \/ \E card \in Cards : LookupReturns(card)
  \/ \E card \in Cards : LookupFails(card)
  \/ \E k \in Confirms : HandleConfirm(k)
  \/ \E k \in Confirms : ConfirmPersistSucceeds(k)
  \/ \E k \in Confirms : ConfirmPersistFails(k)
  \/ ModalCancel
  \/ \E a \in alerts : AlertOk(a)
  \/ \E a \in alerts : AlertAgain(a)
  \/ \E a \in alerts : AlertEnd(a)
  \/ HandleCancel
  \/ NavigateBack

Spec == Init /\ [][Next]_vars


(***************************************************************************)
(* One session after another on the scanner screen                         *)
(***************************************************************************)
InitSessions ==
  /\ Init
  /\ driver = "screen"
  /\ hwEnabled

\* handleStartOnboard / handleStartOffboard pressed again on the home screen
\* after an earlier session was ended
HomeStartNextSession(m) ==
  /\ driver = "screen"
  /\ screen = "home"
  /\ alerts = {}
  /\ homeEnabled
  /\ sessionsOpened >= MaxSessions
  /\ sessionsOpened < MaxSessionsInARow
  /\ sessionsOpened' = sessionsOpened + 1
  /\ startSession(m)
  /\ screen' = "scanner"
  /\ mode' = m
  /\ hook' = [initialHook EXCEPT !.isEnabled = hwEnabled]
  /\ scannedCardId' = ""
  /\ showPilgrimDetails' = FALSE
  /\ UNCHANGED <<envVars, nfc, error, selectedPilgrim, pilgrims, storeCall, homeEnabled,
                 query, hookScan, confirm, alerts>>

NextSessions ==
  \/ \E m \in Status : HomeStartSession(m)
  \/ \E m \in Status : HomeStartNextSession(m)
  \/ \E h \in HookCalls : HandleStartScan(h)
  \/ \E h \in HookCalls, r \in AllScanResults : HookScanReturns(h, r)
  \/ \E card \in Cards : LookupReturns(card)
  \/ \E k \in Confirms : HandleConfirm(k)
  \/ \E k \in Confirms : ConfirmPersistSucceeds(k)
  \/ \E a \in alerts : AlertAgain(a)
  \/ \E a \in alerts : AlertEnd(a)
  \/ HandleCancel

SpecSessions == InitSessions /\ [][NextSessions]_vars

(***************************************************************************)
(* The store with its list of pilgrims loaded                              *)
(***************************************************************************)
InitStoreList ==
  /\ Init
  /\ driver = "store"

NextStoreList ==
  \/ ToggleNfc
  \/ \E a \in {"ok", "raise"} : StoreFetchPilgrims(a)
  \/ \E m \in Status : StoreStartSession(m)
  \/ StoreEndSession
  \/ \E c \in StoreCalls, m \in Status : StoreStartScanning(c, m)
  \/ \E c \in StoreCalls, r \in AllScanResults : StoreScanReturns(c, r)
  \/ \E c \in StoreCalls : StoreLookupReturns(c)
  \/ \E c \in StoreCalls : StorePersistSucceeds(c)
  \/ \E c \in StoreCalls, msg \in RecordStoreErrors : StorePersistFails(c, msg)

SpecStoreList == InitStoreList /\ [][NextStoreList]_vars

(***************************************************************************)
(* NFCService on its own                                                   *)
(***************************************************************************)
\* how a native call answers
Answers == {"ok", "raise"}

HexDigit(n) ==
  CASE n = 0 -> "0" [] n = 1 -> "1" [] n = 2 -> "2" [] n = 3 -> "3"
    [] n = 4 -> "4" [] n = 5 -> "5" [] n = 6 -> "6" [] n = 7 -> "7"
    [] n = 8 -> "8" [] n = 9 -> "9" [] n = 10 -> "A" [] n = 11 -> "B"
    [] n = 12 -> "C" [] n = 13 -> "D" [] n = 14 -> "E" [] OTHER -> "F"

RECURSIVE bytesToHex(_)
bytesToHex(bytes) ==
  IF bytes = <<>> THEN ""
  ELSE HexDigit(Head(bytes) \div 16) \o HexDigit(Head(bytes) % 16)
         \o bytesToHex(Tail(bytes))

\* NFCService.extractCardId; "" is null, "_now" stands for Date.now()
extractCardId(tagInfo) ==
  IF tagInfo.id # <<>> THEN bytesToHex(tagInfo.id)
  ELSE IF tagInfo.uid # <<>> THEN bytesToHex(tagInfo.uid)
  ELSE IF tagInfo.serialNumber # "" THEN tagInfo.serialNumber
  ELSE IF tagInfo.ndef # "" THEN tagInfo.ndef
  ELSE IF tagInfo.type # "" THEN tagInfo.type \o "_now"
  ELSE ""

\* a catch block that returns its result at once, with no finally block
Throw_NoFinally(sc, c, msg) ==
  [sc EXCEPT ![c].pc = "returned",
             ![c].result = ScanFail(mapErrorToMessage(msg))]

\* startScanning's catch block, after which the finally block has called
\* stopScanning and awaits it
Throw(sc, c, msg) ==
  [sc EXCEPT ![c].pc = "finally",
             ![c].result = ScanFail(mapErrorToMessage(msg))]

\* stopScanning without its try/catch
stopScanning_NoCatch(sc, answer) ==
  [scan |-> IF device # "expo" /\ answer = "ok"
            THEN CancelTechnologyRequest(sc) ELSE sc,
   threw |-> (device # "expo" /\ answer = "raise")]

\* NFCService.stopScanning when cancelTechnologyRequest answers
stopScanning(sc, answer) ==
  [scan |-> IF device # "expo" /\ answer = "ok"
            THEN CancelTechnologyRequest(sc) ELSE sc,
   threw |-> FALSE]

InitAdapter ==
  /\ remoteStatus = [p \in Pilgrims |-> IF p = "p1" THEN "offboard" ELSE "onboard"]
  /\ hwEnabled \in BOOLEAN
  /\ sessionStats = initialStats
  /\ scanningMode = "idle"
  /\ nfc = [isScanning |-> FALSE, lastScanResult |-> NoResult]
  /\ error = ""
  /\ selectedPilgrim = NoPilgrim
  /\ pilgrims = <<>>
  /\ storeCall = [c \in StoreCalls |-> FreeCall]
  /\ screen = "home"
  /\ mode = ""
  /\ homeEnabled = FALSE
  /\ hook = initialHook
  /\ scannedCardId = ""
  /\ showPilgrimDetails = FALSE
  /\ query = [c \in Cards |-> [data |-> Undefined, fetching |-> FALSE]]
  /\ hookScan = [h \in HookCalls |-> FreeScan]
  /\ confirm = [k \in Confirms |-> FreeConfirm]
  /\ alerts = {}
  /\ sessionsOpened = 0
  /\ driver = "adapter"
  /\ device \in {"ok", "unsupported", "expo"}
  /\ isInitialized = FALSE
  /\ scan = [c \in ScanCalls |-> FreeScanCall]
  /\ lastStop = "none"

appVars == <<remoteStatus, hwEnabled, driver, device, storeVars, storeCall,
             screenVars>>

\* startScanning is called: the NfcManager test, then initialize() or isEnabled()
SvcStart(c) ==
  /\ driver = "adapter"
  /\ scan[c].pc = "idle"
  /\ \A d \in ScanCalls : d < c => scan[d].pc # "idle"
  /\ scan' = IF device = "expo"
             THEN Throw(scan, c, "NFC_NOT_AVAILABLE_IN_EXPO_GO")
             ELSE [scan EXCEPT ![c].pc =
                     IF isInitialized THEN "isEnabled" ELSE "initialize"]
  /\ UNCHANGED <<appVars, isInitialized, lastStop>>

\* initialize() answers: isSupported() and start() worked, or it returns false
SvcInitializeAnswers(c, answer) ==
  /\ driver = "adapter"
  /\ scan[c].pc = "initialize"
  /\ ~scan[c].hung
  /\ device = "unsupported" => answer = "raise"
  /\ IF answer = "ok"
     THEN /\ isInitialized' = TRUE
          /\ scan' = [scan EXCEPT ![c].pc = "isEnabled"]
     ELSE /\ scan' = Throw(scan, c, "NFC_NOT_SUPPORTED")
          /\ UNCHANGED isInitialized
  /\ UNCHANGED <<appVars, lastStop>>

\* an isEnabled stage that issues the request whatever the answer is
SvcIsEnabledAnswers_NoCheck(c, answer) ==
  /\ driver = "adapter"
  /\ scan[c].pc = "isEnabled"
  /\ ~scan[c].hung
  /\ scan' = [scan EXCEPT ![c].pc = "request", ![c].req = "pending"]
  /\ UNCHANGED <<appVars, isInitialized, lastStop>>

\* this.isEnabled() answers (its test of the flag ran when it was called,
\* right after startScanning's own, so it does not initialize here; it
\* answers false when the native call raises); then requestTechnology is
\* issued and raced with the timer
SvcIsEnabledAnswers(c, answer) ==
  /\ driver = "adapter"
  /\ scan[c].pc = "isEnabled"
  /\ ~scan[c].hung
  /\ IF answer = "ok" /\ hwEnabled
     THEN scan' = [scan EXCEPT ![c].pc = "request", ![c].req = "pending"]
     ELSE scan' = Throw(scan, c, "NFC_DISABLED")
  /\ UNCHANGED <<appVars, isInitialized, lastStop>>

\* requestTechnology resolves: a tag is in the field
SvcTagDetected(c, tag) ==
  /\ driver = "adapter"
  /\ scan[c].pc = "request"
  /\ scan[c].req = "pending"
  /\ ~scan[c].hung
  /\ scan' = [scan EXCEPT ![c].pc = "getTag", ![c].req = "connected",
                          ![c].tag = tag]
  /\ UNCHANGED <<appVars, isInitialized, lastStop>>

\* createScanTimeout's timer fires first
SvcTimerFires(c) ==
  /\ driver = "adapter"
  /\ scan[c].pc = "request"
  /\ scan' = Throw(scan, c, "SCAN_TIMEOUT")
  /\ UNCHANGED <<appVars, isInitialized, lastStop>>

\* requestTechnology rejects: it was cancelled, or the native layer failed
SvcRequestRejects(c, msg) ==
  /\ driver = "adapter"
  /\ scan[c].pc = "request"
  /\ ~scan[c].hung
  /\ msg \in (IF scan[c].req = "cancelled" THEN {"cancelled"} ELSE {})
               \cup {"native failure"}
  /\ scan' = Throw([scan EXCEPT ![c].req = "none"], c, msg)
  /\ UNCHANGED <<appVars, isInitialized, lastStop>>

\* getTag() answers and extractCardId runs on what it gave
SvcGetTagAnswers(c, answer) ==
  /\ driver = "adapter"
  /\ scan[c].pc = "getTag"
  /\ ~scan[c].hung
  /\ IF answer = "ok"
     THEN LET tagInfo == IF scan[c].req = "connected" THEN scan[c].tag ELSE NoTag
              cardId == extractCardId(tagInfo)
          IN scan' = IF cardId = ""
                     THEN Throw([scan EXCEPT ![c].tagRead = TRUE,
                                             ![c].tag = tagInfo],
                                c, "INVALID_CARD")
                     ELSE [scan EXCEPT ![c].pc = "finally",
                                       ![c].tagRead = TRUE,
                                       ![c].tag = tagInfo,
                                       ![c].result = ScanOk(cardId)]
     ELSE scan' = Throw(scan, c, "native failure")
  /\ UNCHANGED <<appVars, isInitialized, lastStop>>

\* the native call this invocation awaits never answers
SvcNativeHangs(c) ==
  /\ driver = "adapter"
  /\ scan[c].pc \in {"initialize", "isEnabled", "request", "getTag", "finally"}
  /\ ~scan[c].hung
  /\ scan' = [scan EXCEPT ![c].hung = TRUE]
  /\ UNCHANGED <<appVars, isInitialized, lastStop>>

\* the finally block's stopScanning answers and startScanning returns
SvcCancelAnswers(c, answer) ==
  /\ driver = "adapter"
  /\ scan[c].pc = "finally"
  /\ ~scan[c].hung
  /\ scan' = [stopScanning(scan, answer).scan EXCEPT
                ![c].pc = "returned",
                ![c].released = (device = "expo" \/ answer = "ok")]
  /\ UNCHANGED <<appVars, isInitialized, lastStop>>

\* the caller has the result
SvcCollect(c) ==
  /\ driver = "adapter"
  /\ scan[c].pc = "returned"
  /\ scan' = [scan EXCEPT ![c] = [FreeScanCall EXCEPT !.req = scan[c].req]]
  /\ UNCHANGED <<appVars, isInitialized, lastStop>>

\* stopScanning is called from outside (a cancel)
SvcStopScanning(answer) ==
  /\ driver = "adapter"
  /\ scan' = stopScanning(scan, answer).scan
  /\ lastStop' = IF stopScanning(scan, answer).threw THEN "threw" ELSE "returned"
  /\ UNCHANGED <<appVars, isInitialized>>

\* cleanup(): stopScanning, then the flag is reset
SvcCleanup(answer) ==
  /\ driver = "adapter"
  /\ scan' = stopScanning(scan, answer).scan
  /\ isInitialized' = FALSE
  /\ UNCHANGED <<appVars, lastStop>>

\* useNFC.checkStatus: isSupported() and isEnabled() are polled together and
\* the hook keeps the answer; isEnabled() runs initialize() first when the
\* flag is not set (a answers NfcManager.start, b answers NfcManager.isEnabled)
SvcCheckStatus(a, b) ==
  /\ driver = "adapter"
  /\ isInitialized' = (isInitialized \/ (device = "ok" /\ a = "ok"))
  /\ hook' = [hook EXCEPT !.isEnabled = (device # "expo" /\ b = "ok" /\ hwEnabled)]
  /\ UNCHANGED <<remoteStatus, hwEnabled, driver, device, scan, lastStop,
                 storeVars, storeCall, screen, mode, homeEnabled,
                 scannedCardId, showPilgrimDetails, query, hookScan, confirm,
                 alerts, sessionsOpened>>

SvcToggleNfc ==
  /\ driver = "adapter"
  /\ ToggleNfc

NextAdapter ==
  \/ SvcToggleNfc
  \/ \E c \in ScanCalls : SvcStart(c)
  \/ \E c \in ScanCalls, a \in Answers : SvcInitializeAnswers(c, a)
  \/ \E c \in ScanCalls, a \in Answers : SvcIsEnabledAnswers(c, a)
  \/ \E c \in ScanCalls, tag \in Tags : SvcTagDetected(c, tag)
  \/ \E c \in ScanCalls : SvcTimerFires(c)
  \/ \E c \in ScanCalls, msg \in {"cancelled", "native failure"} :
       SvcRequestRejects(c, msg)
  \/ \E c \in ScanCalls, a \in Answers : SvcGetTagAnswers(c, a)
  \/ \E c \in ScanCalls : SvcNativeHangs(c)
  \/ \E c \in ScanCalls, a \in Answers : SvcCancelAnswers(c, a)
  \/ \E c \in ScanCalls : SvcCollect(c)
  \/ \E a \in Answers : SvcStopScanning(a)
  \/ \E a \in Answers : SvcCleanup(a)
  \/ \E a \in Answers, b \in Answers : SvcCheckStatus(a, b)

SpecAdapter == InitAdapter /\ [][NextAdapter]_vars


(***************************************************************************)
(* The two error-message maps on their own                                 *)
(***************************************************************************)
\* the failure kinds of AppError
Taxonomy ==
  {"NFC_NOT_SUPPORTED", "NFC_DISABLED", "SCAN_TIMEOUT", "INVALID_CARD",
   "PILGRIM_NOT_FOUND", "ALREADY_ONBOARD", "ALREADY_OFFBOARD",
   "NETWORK_ERROR", "SERVER_ERROR", "UNKNOWN_ERROR"}

\* the codes handed to the maps: the kinds, and messages outside them
ErrorCodes ==
  Taxonomy \cup {"NFC_NOT_AVAILABLE_IN_EXPO_GO", "Network error occurred",
                 "cancelled"}

InitMessages ==
  /\ remoteStatus = [p \in Pilgrims |-> IF p = "p1" THEN "offboard" ELSE "onboard"]
  /\ hwEnabled = TRUE
  /\ sessionStats = initialStats
  /\ scanningMode = "idle"
  /\ nfc = [isScanning |-> FALSE, lastScanResult |-> NoResult]
  /\ error = ""
  /\ selectedPilgrim = NoPilgrim
  /\ pilgrims = <<>>
  /\ storeCall = [c \in StoreCalls |-> FreeCall]
  /\ screen = "home"
  /\ mode = ""
  /\ homeEnabled = FALSE
  /\ hook = initialHook
  /\ scannedCardId = ""
  /\ showPilgrimDetails = FALSE
  /\ query = [c \in Cards |-> [data |-> Undefined, fetching |-> FALSE]]
  /\ hookScan = [h \in HookCalls |-> FreeScan]
  /\ confirm = [k \in Confirms |-> FreeConfirm]
  /\ alerts = {}
  /\ sessionsOpened = 0
  /\ driver = "messages"
  /\ device = "ok"
  /\ isInitialized = FALSE
  /\ scan = [c \in ScanCalls |-> FreeScanCall]
  /\ lastStop = "none"

\* processScan's catch maps the code of the error it caught
StoreMapsError(code) ==
  /\ driver = "messages"
  /\ nfc' = [nfc EXCEPT !.lastScanResult = ScanFail(code)]
  /\ error' = mapErrorMessage(code)
  /\ UNCHANGED <<envVars, sessionStats, scanningMode, selectedPilgrim, pilgrims,
                 storeCall, screenVars>>

\* useNFC.startScanning maps the error code of a failed result
HookMapsError(code) ==
  /\ driver = "messages"
  /\ hook' = [hook EXCEPT !.lastScanResult = ScanFail(code),
                          !.error = mapErrorToArabic(code)]
  /\ UNCHANGED <<envVars, storeVars, storeCall, screen, mode, homeEnabled,
                 scannedCardId, showPilgrimDetails, query, hookScan, confirm,
                 alerts, sessionsOpened>>

NextMessages ==
  \/ \E code \in ErrorCodes : StoreMapsError(code)
  \/ \E code \in ErrorCodes : HookMapsError(code)

SpecMessages == InitMessages /\ [][NextMessages]_vars


(***************************************************************************)
(* Properties                                                              *)
(***************************************************************************)
PlusOneFailure(s, t) ==
  t = [s EXCEPT !.failedScans = @ + 1, !.totalScanned = @ + 1]

PlusOneSuccess(s, t, status) ==
  t = [s EXCEPT !.successfulScans = @ + 1, !.totalScanned = @ + 1,
                !.onboardCount = IF status = "onboard" THEN @ + 1 ELSE @,
                !.offboardCount = IF status = "offboard" THEN @ + 1 ELSE @]

Already(m) == IF m = "onboard" THEN "ALREADY_ONBOARD" ELSE "ALREADY_OFFBOARD"

ScansPending ==
  Cardinality({c \in StoreCalls : storeCall[c].req = "pending"})
    + Cardinality({h \in HookCalls : hookScan[h].req = "pending"})

ScansOutstanding ==
  Cardinality({c \in StoreCalls : storeCall[c].pc = "scan"})
    + Cardinality({h \in HookCalls : hookScan[h].pc = "scan" /\ hookScan[h].live})

PersistsInFlight ==
  Cardinality({c \in StoreCalls : storeCall[c].pc = "persist"})
    + Cardinality({k \in Confirms : confirm[k].pc = "persist" /\ confirm[k].live})

\* C1: in every reachable state totalScanned = successfulScans + failedScans,
\* also after a handler wrote counters computed from a snapshot of
\* sessionStats taken before its await.
C1_TotalIsSum ==
  sessionStats.totalScanned
    = sessionStats.successfulScans + sessionStats.failedScans

\* C2: a cycle of the store's startScanning that ends in a failure (scan
\* failure, PILGRIM_NOT_FOUND, ALREADY_*, persist failure) adds exactly 1 to
\* failedScans and exactly 1 to totalScanned.
C2_FailureCountedOnce ==
  [][\A c \in StoreCalls :
       (/\ driver = "store"
        /\ storeCall[c].pc # "free"
        /\ storeCall'[c].pc = "free"
        /\ ~StorePersistSucceeds(c))
       => PlusOneFailure(sessionStats, sessionStats')]_vars

\* C3: when the card resolves to a pilgrim whose status already equals the
\* session mode, the outcome is ALREADY_ONBOARD (ALREADY_OFFBOARD) and no
\* persist call is issued, in processScan and in the confirm handler.
C3_AlreadyInTargetNoPersist ==
  [][/\ \A c \in StoreCalls :
          (/\ StoreLookupReturns(c)
           /\ scanningMode \in Status
           /\ getPilgrimByNfcId(storeCall[c].cardId).status = scanningMode)
          => /\ storeCall'[c].pc = "free"
             /\ error' = Already(scanningMode)
             /\ remoteStatus' = remoteStatus
     /\ \A k \in Confirms :
          (HandleConfirm(k) /\ scannedPilgrim.status = mode)
          => /\ confirm' = confirm
             /\ Alert(Already(mode), TRUE) \in alerts'
             /\ remoteStatus' = remoteStatus]_vars

\* a not-yet-dismissed ALREADY_ONBOARD alert of an onboard session, for a
\* pilgrim who is onboard, with no persist call in flight
C3_Witness ==
  /\ driver = "screen"
  /\ mode = "onboard"
  /\ Alert("ALREADY_ONBOARD", TRUE) \in alerts
  /\ scannedPilgrim.status = "onboard"
  /\ \A k \in Confirms : confirm[k].pc = "free"

\* C4: an attempt on a pilgrim who is already in the target status adds 1 to
\* failedScans and 1 to totalScanned and leaves the stored status unchanged
\* (confirm path of the scanner screen).
C4_AlreadyCountsFailure ==
  [][\A k \in Confirms :
       (HandleConfirm(k) /\ ConfirmValidate(mode, scannedPilgrim) # "Approved")
       => /\ PlusOneFailure(sessionStats, sessionStats')
          /\ remoteStatus' = remoteStatus]_vars

\* C5: a card that matches no record ends its cycle as PILGRIM_NOT_FOUND, and
\* no persist call is issued for it: processScan throws PILGRIM_NOT_FOUND when
\* the lookup answers, the screen has the not-found alert up (and no modal)
\* as soon as the lookup of the scanned card is over, a confirm is only ever
\* pressed for a card that has a record, and every persist call in flight
\* carries the card of an existing record.
C5_UnknownCardNotFound ==
  [][/\ \A c \in StoreCalls :
          (/\ StoreLookupReturns(c)
           /\ getPilgrimByNfcId(storeCall[c].cardId) = NoPilgrim)
          => /\ storeCall'[c].pc = "free"
             /\ error' = "PILGRIM_NOT_FOUND"
             /\ remoteStatus' = remoteStatus
     /\ (/\ driver = "screen"
         /\ screen' = "scanner"
         /\ scannedCardId' # ""
         /\ getPilgrimByNfcId(scannedCardId') = NoPilgrim
         /\ ~pilgrimLoading')
        => /\ Alert("PILGRIM_NOT_FOUND", TRUE) \in alerts'
           /\ ~ModalShown'
     /\ \A k \in Confirms :
          HandleConfirm(k) => getPilgrimByNfcId(scannedCardId) # NoPilgrim
     /\ \A k \in Confirms :
          confirm'[k].pc = "persist" => getPilgrimByNfcId(confirm'[k].card) # NoPilgrim
     /\ \A c \in StoreCalls :
          storeCall'[c].pc = "persist"
            => getPilgrimByNfcId(storeCall'[c].cardId) # NoPilgrim]_vars

\* the unknown card was scanned and looked up: the not-found alert is up
\* and nothing is being persisted
C5_Witness ==
  /\ driver = "screen"
  /\ scannedCardId = "ZZ"
  /\ query["ZZ"] = [data |-> NoPilgrim, fetching |-> FALSE]
  /\ Alert("PILGRIM_NOT_FOUND", TRUE) \in alerts
  /\ \A k \in Confirms : confirm[k].pc = "free"

\* C6: a successful persist adds exactly 1 to successfulScans, to
\* totalScanned and to the count of the target status, and changes no other
\* counter.
C6_SuccessCountsOnce ==
  [][/\ \A k \in Confirms :
          ConfirmPersistSucceeds(k)
          => PlusOneSuccess(sessionStats, sessionStats', confirm[k].status)
     /\ \A c \in StoreCalls :
          StorePersistSucceeds(c)
          => PlusOneSuccess(sessionStats, sessionStats', storeCall[c].newStatus)]_vars

\* C7: cancel while a scan is in flight leaves isScanning false and changes
\* no counter, also when the cancelled request then settles as a failure.
C7_CancelNotCounted ==
  [][/\ HandleStopScan => (~hook'.isScanning /\ sessionStats' = sessionStats)
     /\ StoreStopScanning => (~nfc'.isScanning /\ sessionStats' = sessionStats)
     /\ \A h \in HookCalls, r \in AllScanResults :
          (HookScanReturns(h, r) /\ hookScan[h].req = "cancelled")
          => sessionStats' = sessionStats
     /\ \A c \in StoreCalls, r \in AllScanResults :
          (StoreScanReturns(c, r) /\ storeCall[c].req = "cancelled")
          => sessionStats' = sessionStats]_vars

\* C8: a failed or timed-out hardware scan adds exactly 1 to failedScans and
\* to totalScanned, starts no lookup and no persist, and leaves the session
\* not scanning.
C8_ScanFailureCounted ==
  [][/\ \A h \in HookCalls, r \in AllScanResults :
          (HookScanReturns(h, r) /\ hookScan[h].live /\ ~r.success)
          => /\ PlusOneFailure(sessionStats, sessionStats')
             /\ query' = query
             /\ confirm' = confirm
             /\ scannedCardId' = scannedCardId
             /\ remoteStatus' = remoteStatus
             /\ ~hook'.isScanning
     /\ \A c \in StoreCalls, r \in AllScanResults :
          (StoreScanReturns(c, r) /\ ~r.success)
          => /\ PlusOneFailure(sessionStats, sessionStats')
             /\ storeCall'[c].pc = "free"
             /\ remoteStatus' = remoteStatus
             /\ ~nfc'.isScanning]_vars

\* a fresh offboard session after one timed-out scan: failed = 1, total = 1,
\* no lookup running and none answered
C8_Witness ==
  /\ driver = "screen"
  /\ mode = "offboard"
  /\ hook.lastScanResult = ScanFail("SCAN_TIMEOUT")
  /\ ~hook.isScanning
  /\ sessionStats = [initialStats EXCEPT !.startTime = TRUE,
                       !.failedScans = 1, !.totalScanned = 1]
  /\ \A card \in Cards : query[card] = [data |-> Undefined, fetching |-> FALSE]

\* C9: at most one hardware scan is in flight, and a start call issued while
\* the store is scanning is a no-op.
C9_OneScanInFlight ==
  /\ [](ScansPending <= 1)
  /\ [][\A c \in StoreCalls, m \in Status :
          (StoreStartScanning(c, m) /\ nfc.isScanning) => UNCHANGED vars]_vars

\* C10: at most one persist call is in flight per session, and no scan is
\* requested while one is outstanding.
C10_OnePersistOneScan ==
  /\ PersistsInFlight <= 1
  /\ ScansOutstanding <= 1

ErrorKinds ==
  {"NFC_NOT_SUPPORTED", "NFC_DISABLED", "SCAN_TIMEOUT", "INVALID_CARD",
   "UNKNOWN_ERROR"}

\* the tag carries an identifier of its own
HasIdentifier(tag) ==
  tag.id # <<>> \/ tag.uid # <<>> \/ tag.serialNumber # "" \/ tag.ndef # ""

ReaderHeld == \E d \in ScanCalls : scan[d].req \in {"pending", "connected"}

\* a step that invocation c of startScanning takes once what it awaits answers
SvcProgress(c) ==
  \/ \E a \in Answers : SvcInitializeAnswers(c, a)
  \/ \E a \in Answers : SvcIsEnabledAnswers(c, a)
  \/ \E tag \in Tags : SvcTagDetected(c, tag)
  \/ SvcTimerFires(c)
  \/ \E msg \in {"cancelled", "native failure"} : SvcRequestRejects(c, msg)
  \/ \E a \in Answers : SvcGetTagAnswers(c, a)
  \/ \E a \in Answers : SvcCancelAnswers(c, a)

\* C13: every result NFCService.startScanning returns is either success with
\* a non-empty cardId and no error, or failure with one of the five error
\* kinds and no cardId; INVALID_CARD is returned exactly when a tag was read
\* and it carries no identifier.
C13_ResultShape ==
  \A c \in ScanCalls :
    scan[c].pc = "returned" =>
      LET r == scan[c].result IN
      /\ \/ r.success /\ r.cardId # "" /\ r.error = ""
         \/ ~r.success /\ r.cardId = "" /\ r.error \in ErrorKinds
      /\ r.error = "INVALID_CARD"
           <=> (scan[c].tagRead /\ ~HasIdentifier(scan[c].tag))

\* C14: every call of NFCService.startScanning returns: an invocation that has
\* not returned can always take a step (it never waits on a native call that
\* does not answer), and when the timer fires the result is SCAN_TIMEOUT.
C14_AlwaysReturns ==
  /\ [](\A c \in ScanCalls :
          scan[c].pc \notin {"idle", "returned"} => ENABLED SvcProgress(c))
  /\ [][\A c \in ScanCalls :
          SvcTimerFires(c) => scan'[c].result = ScanFail("SCAN_TIMEOUT")]_vars

C16_StopIdempotent ==
  [][\A a \in Answers :
       SvcStopScanning(a)
       => /\ lastStop' = "returned"
          /\ isInitialized' = isInitialized
          /\ ~ReaderHeld => scan' = scan
          /\ a = "ok" => \A b \in Answers : stopScanning(scan', b).scan = scan'
          /\ \A b \in Answers : ~stopScanning(scan', b).threw]_vars

\* stopScanning returned while a request was pending: the request is cancelled
C16_Witness ==
  /\ driver = "adapter"
  /\ lastStop = "returned"
  /\ \E c \in ScanCalls : scan[c].pc = "request" /\ scan[c].req = "cancelled"

\* C11: a start request sets the scanning flag only when the reader is enabled
\* at that moment, and a request the reader refused (it was switched off when
\* the request was made) ends without changing any Session Statistics counter.
C11_StartOnlyIfEnabled ==
  [][/\ \A h \in HookCalls :
          HandleStartScan(h) /\ hook'.isScanning => hwEnabled
     /\ \A c \in StoreCalls, m \in Status :
          StoreStartScanning(c, m) /\ nfc'.isScanning => hwEnabled
     /\ \A h \in HookCalls, r \in AllScanResults :
          HookScanReturns(h, r) /\ hookScan[h].req = "refused"
          => sessionStats' = sessionStats
     /\ \A c \in StoreCalls, r \in AllScanResults :
          StoreScanReturns(c, r) /\ storeCall[c].req = "refused"
          => sessionStats' = sessionStats]_vars

\* C12: a session is started from the home screen (startSession called, the
\* scanner opened) only while the reader is enabled at that moment.
C12_SessionStartRechecks ==
  [][\A m \in Status : HomeStartSession(m) => hwEnabled]_vars

\* C17: the status check approves a target (onboard or offboard) exactly when
\* the pilgrim's current status differs from it and answers ALREADY_<target>
\* otherwise; processScan's check and the confirm handler's check give the
\* same answer for every (current status, mode) pair.
C17_ValidatorAgrees ==
  [][/\ \A c \in StoreCalls :
          LET pilgrim == getPilgrimByNfcId(storeCall[c].cardId) IN
          (StoreLookupReturns(c) /\ scanningMode \in Status /\ pilgrim # NoPilgrim)
          => /\ storeCall'[c].pc = "persist" <=> pilgrim.status # scanningMode
             /\ pilgrim.status = scanningMode => error' = Already(scanningMode)
     /\ \A k \in Confirms :
          HandleConfirm(k)
          => /\ confirm'[k].pc = "persist" <=> scannedPilgrim.status # mode
             /\ scannedPilgrim.status = mode
                  => Alert(Already(mode), TRUE) \in alerts'
     /\ \A st \in Status, m \in Status :
          LET pilgrim == [id |-> "p1", status |-> st] IN
          /\ ProcessScanValidate(m, pilgrim) = ConfirmValidate(m, pilgrim)
          /\ ProcessScanValidate(m, pilgrim) =
               IF st # m THEN "Approved" ELSE Already(m)]_vars

\* processScan approved an offboard pilgrim for onboard: its persist call is
\* in flight
C17_Witness ==
  /\ driver = "store"
  /\ \E c \in StoreCalls :
       /\ storeCall[c].pc = "persist"
       /\ storeCall[c].newStatus = "onboard"
       /\ storeCall[c].pilgrim.status = "offboard"

\* C18: the status handed to the Record Store's updatePilgrimStatus is always
\* onboard or offboard: no persist call is in flight with any other value.
C18_PersistStatusLegal ==
  /\ \A c \in StoreCalls :
       storeCall[c].pc = "persist" => storeCall[c].newStatus \in Status
  /\ \A k \in Confirms :
       confirm[k].pc = "persist" => confirm[k].status \in Status

\* C19: while a session is on, starting a scan, cancelling a scan and a scan
\* returning leave scanningMode as it is, and no lookup, validate or persist
\* step is taken while scanningMode is idle.
C19_ModeFixed ==
  [][/\ scanningMode \in Status
        => /\ \A c \in StoreCalls, m \in Status :
                StoreStartScanning(c, m) => scanningMode' = scanningMode
           /\ StoreStopScanning => scanningMode' = scanningMode
           /\ \A c \in StoreCalls, r \in AllScanResults :
                StoreScanReturns(c, r) => scanningMode' = scanningMode
           /\ \A h \in HookCalls : HandleStartScan(h) => scanningMode' = scanningMode
           /\ HandleStopScan => scanningMode' = scanningMode
           /\ \A h \in HookCalls, r \in AllScanResults :
                HookScanReturns(h, r) => scanningMode' = scanningMode
     /\ \A c \in StoreCalls :
          (\/ StoreLookupReturns(c)
           \/ \E msg \in RecordStoreErrors : StoreLookupFails(c, msg)
           \/ StorePersistSucceeds(c)
           \/ \E msg \in RecordStoreErrors : StorePersistFails(c, msg))
          => scanningMode \in Status
     /\ \A k \in Confirms : HandleConfirm(k) => scanningMode \in Status]_vars

\* C20: when the persist call fails, failedScans and totalScanned grow by one,
\* successfulScans, onboardCount and offboardCount keep their values, and the
\* pilgrim's status in memory (query cache, selected pilgrim) and in the
\* Record Store is what it was before the attempt.
C20_PersistFailureCounted ==
  [][/\ \A k \in Confirms :
          ConfirmPersistFails(k)
          => /\ PlusOneFailure(sessionStats, sessionStats')
             /\ query' = query
             /\ remoteStatus' = remoteStatus
     /\ \A c \in StoreCalls, msg \in RecordStoreErrors :
          StorePersistFails(c, msg)
          => /\ PlusOneFailure(sessionStats, sessionStats')
             /\ selectedPilgrim' = selectedPilgrim
             /\ remoteStatus' = remoteStatus]_vars

\* the step leaves the session as it is: same mode, same endTime
SessionKept ==
  /\ scanningMode' = scanningMode
  /\ sessionStats'.endTime = sessionStats.endTime

\* the actions by which the user ends or cancels: endSession, stopScanning of
\* the store, the end-session button, "cancel" of the not-found alert and
\* "close" of the success alert
ExplicitEnd ==
  \/ StoreEndSession
  \/ StoreStopScanning
  \/ HandleCancel
  \/ \E a \in alerts : AlertEnd(a)

\* C21: no failure ends the session: a scan failure, a not-found lookup, a
\* failed lookup, an ALREADY_ONBOARD / ALREADY_OFFBOARD verdict and a persist
\* failure leave scanningMode and endTime as they were, keep the scanner
\* screen up and release the scanning flag; scanningMode becomes idle and
\* endTime is stamped only by an explicit end or cancel action.
C21_NoSelfEnd ==
  [][/\ \A c \in StoreCalls, r \in AllScanResults :
          (StoreScanReturns(c, r) /\ ~r.success)
          => SessionKept /\ ~nfc'.isScanning
     /\ \A c \in StoreCalls :
          (\/ StoreLookupReturns(c)
           \/ \E msg \in RecordStoreErrors : StoreLookupFails(c, msg)
           \/ \E msg \in RecordStoreErrors : StorePersistFails(c, msg))
          => SessionKept
     /\ \A h \in HookCalls, r \in AllScanResults :
          (HookScanReturns(h, r) /\ ~r.success)
          => /\ SessionKept
             /\ screen' = screen
             /\ hookScan[h].live => ~hook'.isScanning
     /\ \A card \in Cards :
          (LookupReturns(card) \/ LookupFails(card))
          => SessionKept /\ screen' = screen
     /\ \A k \in Confirms :
          (HandleConfirm(k) \/ ConfirmPersistFails(k))
          => SessionKept /\ screen' = screen
     /\ (\/ scanningMode # "idle" /\ scanningMode' = "idle"
         \/ ~sessionStats.endTime /\ sessionStats'.endTime)
          => ExplicitEnd]_vars

\* a failure has been counted by the store and its session is still on
C21_Witness ==
  /\ driver = "store"
  /\ scanningMode \in Status
  /\ sessionStats.startTime
  /\ ~sessionStats.endTime
  /\ sessionStats.failedScans > 0
  /\ error # ""
  /\ ~nfc.isScanning

\* a technology request is outstanding at the reader
RequestOutstanding(sc, hs) ==
  \/ \E c \in StoreCalls : sc[c].req = "pending"
  \/ \E h \in HookCalls : hs[h].req = "pending"

\* C22: every way of ending a session (endSession of the store, the
\* end-session button, "cancel" / "close" of an alert, leaving the scanner
\* screen by the back button) stamps endTime, leaves the mode idle and the
\* scanning flag off, and leaves no technology request outstanding.
C22_EndCancelsScan ==
  [][(\/ StoreEndSession
      \/ HandleCancel
      \/ \E a \in alerts : AlertEnd(a)
      \/ NavigateBack)
     => /\ sessionStats'.endTime
        /\ scanningMode' = "idle"
        /\ ~nfc'.isScanning
        /\ ~RequestOutstanding(storeCall', hookScan')]_vars

Counters ==
  {"totalScanned", "successfulScans", "failedScans", "onboardCount",
   "offboardCount"}

\* C23: within a session no step lowers a Session Statistics counter: every
\* step other than startSession leaves each counter at least as large as it
\* was.
C23_CountersMonotone ==
  [][(~\E m \in Status : StoreStartSession(m) \/ HomeStartSession(m))
     => \A k \in Counters : sessionStats'[k] >= sessionStats[k]]_vars

\* C24: on the scanner screen a lookup that answers "no such record" for the
\* scanned card raises the not-found alert and adds exactly 1 to failedScans
\* and to totalScanned; "retry" then changes no counter, keeps the session on
\* (mode, endTime, screen) and clears the scanned card; "cancel" changes no
\* counter and ends the session.
C24_NotFoundCountedOnce ==
  [][/\ \A card \in Cards :
          (/\ LookupReturns(card)
           /\ card = scannedCardId
           /\ query[card].data = Undefined
           /\ getPilgrimByNfcId(card) = NoPilgrim)
          => /\ PlusOneFailure(sessionStats, sessionStats')
             /\ Alert("PILGRIM_NOT_FOUND", TRUE) \in alerts'
     \* the card is scanned again while the cache still holds "no record":
     \* counted at the scan's return, not again when the refetch answers
     /\ \A h \in HookCalls, r \in AllScanResults :
          (/\ HookScanReturns(h, r)
           /\ hookScan[h].live /\ r.success /\ r.cardId # scannedCardId
           /\ query[r.cardId].data = NoPilgrim)
          => /\ PlusOneFailure(sessionStats, sessionStats')
             /\ Alert("PILGRIM_NOT_FOUND", TRUE) \in alerts'
     /\ \A card \in Cards :
          (/\ LookupReturns(card)
           /\ card = scannedCardId
           /\ query[card].data = NoPilgrim
           /\ getPilgrimByNfcId(card) = NoPilgrim)
          => sessionStats' = sessionStats
     /\ \A a \in alerts :
          (AlertAgain(a) /\ a.kind = "PILGRIM_NOT_FOUND")
          => /\ sessionStats' = sessionStats
             /\ scanningMode' = scanningMode
             /\ screen' = screen
             /\ a.live => scannedCardId' = ""
     /\ \A a \in alerts :
          (AlertEnd(a) /\ a.kind = "PILGRIM_NOT_FOUND")
          => /\ \A k \in Counters : sessionStats'[k] = sessionStats[k]
             /\ sessionStats'.endTime
             /\ scanningMode' = "idle"
             /\ screen' = "home"]_vars

\* after "retry" of a not-found alert: the failure is counted once, the card
\* is cleared and the session is still on
C24_Witness ==
  /\ driver = "screen"
  /\ screen = "scanner"
  /\ alerts = {}
  /\ scannedCardId = ""
  /\ query["ZZ"].data = NoPilgrim
  /\ sessionStats.failedScans = 1
  /\ sessionStats.totalScanned = 1
  /\ scanningMode \in Status
  /\ ~sessionStats.endTime

\* C25: getPilgrimByNfcId answers null for a 404 only and raises for every
\* other failure, and a cycle whose lookup raised is not reported as
\* PILGRIM_NOT_FOUND: the failed lookup raises no not-found alert on the
\* scanner screen and sets no not-found error in the store.
C25_LookupErrorDistinct ==
  [][/\ \A st \in FailureStatus :
          GetPilgrimByNfcIdCatch(st) = "null" <=> st = 404
     /\ \A card \in Cards :
          (LookupFails(card) /\ Alert("PILGRIM_NOT_FOUND", TRUE) \notin alerts)
          => Alert("PILGRIM_NOT_FOUND", TRUE) \notin alerts'
     /\ \A c \in StoreCalls, msg \in RecordStoreErrors :
          StoreLookupFails(c, msg)
          => error' \notin {"PILGRIM_NOT_FOUND", mapErrorMessage("PILGRIM_NOT_FOUND")}]_vars

\* C26: each failure kind has one fixed message: when the store's map and
\* the hook's map were last applied to the same code they hold the same
\* message, and for a code outside the taxonomy that is the message of
\* UNKNOWN_ERROR.
C26_OneMessagePerKind ==
  (/\ driver = "messages"
   /\ nfc.lastScanResult.error # ""
   /\ nfc.lastScanResult.error = hook.lastScanResult.error)
  => /\ error = hook.error
     /\ nfc.lastScanResult.error \notin Taxonomy
          => error = mapErrorMessage("UNKNOWN_ERROR")

\* the fixed messages of the failure kinds
UserFacingMessages == {mapErrorMessage(k) : k \in Taxonomy}

\* invocation c of the store's startScanning ends in its catch block
StoreCallFails(c) ==
  \/ \E r \in AllScanResults : StoreScanReturns(c, r) /\ ~r.success
  \/ StoreLookupReturns(c) /\ storeCall'[c].pc = "free"
  \/ \E msg \in RecordStoreErrors : StoreLookupFails(c, msg)
  \/ \E msg \in RecordStoreErrors : StorePersistFails(c, msg)

\* C27: whatever the scan, the lookup and the persist answer, a failing
\* invocation of the store's startScanning completes (its catch block
\* swallows the error), leaves nfc.isScanning false, counts the failure in
\* Session Statistics and leaves a user-facing message in error.
C27_RecoveredAtBoundary ==
  [][\A c \in StoreCalls :
       StoreCallFails(c)
       => /\ storeCall'[c] = FreeCall
          /\ ~nfc'.isScanning
          /\ sessionStats'.failedScans > sessionStats.failedScans
          /\ sessionStats'.totalScanned > sessionStats.totalScanned
          /\ error' \in UserFacingMessages]_vars

\* C28: polling isSupported and isEnabled changes nothing in the adapter:
\* not the initialization flag, not the reader, not an invocation of
\* startScanning that is in flight.
C28_PollIsPure ==
  [][\A a \in Answers, b \in Answers :
       SvcCheckStatus(a, b) => UNCHANGED adapterVars]_vars

\* a cancel was made while an invocation was awaiting the reader
CancelledInFlight ==
  \/ \E h \in HookCalls : hookScan[h].pc = "scan" /\ hookScan[h].req = "cancelled"
  \/ \E c \in StoreCalls : storeCall[c].pc = "scan" /\ storeCall[c].req = "cancelled"

C30_SecondScanSeesStoredStatus ==
  [][\A k \in Confirms :
       (/\ HandleConfirm(k)
        /\ mode = "onboard"
        /\ scannedPilgrim.id = "p1"
        /\ remoteStatus["p1"] = "onboard")
       => /\ Alert("ALREADY_ONBOARD", TRUE) \in alerts'
          /\ confirm' = confirm]_vars

\* C31: once endSession has stamped endTime, the counters of that session
\* are final: no step changes them while endTime stays stamped, in
\* particular not the completion of a lookup or persist that was in flight.
C31_EndedSessionFrozen ==
  [][(sessionStats.endTime /\ sessionStats'.endTime)
     => \A k \in Counters : sessionStats'[k] = sessionStats[k]]_vars

\* C32: the hook's isScanning is true only while an invocation of its
\* startScanning is outstanding, and stays true as long as one is: when an
\* invocation returns while a later one is still awaiting the reader, the
\* flag is still set after the return.
C32_FlagTracksScan ==
  /\ [](hook.isScanning
        => \E h \in HookCalls : hookScan[h].pc = "scan" /\ hookScan[h].live)
  /\ [][\A h \in HookCalls, r \in AllScanResults :
          (/\ HookScanReturns(h, r)
           /\ \E g \in HookCalls :
                g # h /\ hookScan'[g].pc = "scan" /\ hookScan'[g].live)
          => hook'.isScanning]_vars

\* C33: the clean-up of one invocation of startScanning (its finally block)
\* and cleanup() leave the technology request of every other invocation as
\* it was: a request ends only by its own timer, its own completion or a
\* stopScanning called as a cancel.
C33_CleanupSparesLaterScan ==
  /\ [][\A c \in ScanCalls, a \in Answers :
          SvcCancelAnswers(c, a)
          => \A d \in ScanCalls \ {c} : scan'[d].req = scan[d].req]_vars
  /\ [][\A a \in Answers :
          SvcCleanup(a) => \A d \in ScanCalls : scan'[d].req = scan[d].req]_vars

\* C34: in every reachable state successfulScans = onboardCount +
\* offboardCount.
C34_SuccessIsSumOfModes ==
  sessionStats.successfulScans
    = sessionStats.onboardCount + sessionStats.offboardCount

\* C35: startSession(mode) sets scanningMode to mode, sets the five counters
\* to 0, stamps startTime and leaves no endTime, and changes nothing else in
\* the store: the list of pilgrims, selectedPilgrim, error and nfc are as
\* they were.
C35_StartSessionFrame ==
  [][\A m \in Status :
       StoreStartSession(m)
       => /\ scanningMode' = m
          /\ \A k \in Counters : sessionStats'[k] = 0
          /\ sessionStats'.startTime
          /\ ~sessionStats'.endTime
          /\ UNCHANGED <<pilgrims, selectedPilgrim, error, nfc>>]_vars

\* a session was started over a store that a finished cycle had written to
C35_Witness ==
  /\ driver = "store"
  /\ sessionStats.startTime
  /\ \A k \in Counters : sessionStats[k] = 0
  /\ selectedPilgrim # NoPilgrim
  /\ pilgrims # <<>>
  /\ error # ""

\* C37: a successful updatePilgrimStatus(id, status) replaces the entry with
\* that id in the store's list by the record the Record Store returned and
\* leaves every other entry (and a list without that id) as it was; after
\* the successful processScan selectedPilgrim shows the persisted status.
C37_ListAndSelectionUpdated ==
  [][\A c \in StoreCalls :
       StorePersistSucceeds(c)
       => /\ DOMAIN pilgrims' = DOMAIN pilgrims
          /\ \A i \in DOMAIN pilgrims :
               pilgrims'[i] = IF pilgrims[i].id = storeCall[c].pilgrim.id
                              THEN [id |-> storeCall[c].pilgrim.id,
                                    status |-> storeCall[c].newStatus]
                              ELSE pilgrims[i]
          /\ selectedPilgrim'.id = storeCall[c].pilgrim.id
          /\ selectedPilgrim'.status = storeCall[c].newStatus]_vars

\* C36: within one invocation of startScanning the technology request is
\* issued only in the step where isEnabled answered true, and that stage is
\* entered only with the adapter initialized; a failed initialization ends
\* in NFC_NOT_SUPPORTED and a disabled reader in NFC_DISABLED, both without
\* issuing a request.
C36_RequestAfterChecks ==
  /\ [][\A c \in ScanCalls :
          (scan[c].req # "pending" /\ scan'[c].req = "pending")
          => /\ scan[c].pc = "isEnabled"
             /\ hwEnabled
             /\ SvcIsEnabledAnswers(c, "ok")]_vars
  /\ [][\A c \in ScanCalls :
          (scan[c].pc # "isEnabled" /\ scan'[c].pc = "isEnabled")
          => isInitialized']_vars
  /\ [][\A c \in ScanCalls :
          SvcInitializeAnswers(c, "raise")
          => /\ scan'[c].result = ScanFail("NFC_NOT_SUPPORTED")
             /\ scan'[c].req = scan[c].req]_vars
  /\ [][\A c \in ScanCalls, a \in Answers :
          (SvcIsEnabledAnswers(c, a) /\ ~(a = "ok" /\ hwEnabled))
          => /\ scan'[c].result = ScanFail("NFC_DISABLED")
             /\ scan'[c].req = scan[c].req]_vars

\* one invocation was refused for a disabled reader while another, started
\* after the reader was enabled, holds a request
C36_Witness ==
  /\ driver = "adapter"
  /\ \E c \in ScanCalls :
       scan[c].result = ScanFail("NFC_DISABLED") /\ scan[c].req = "none"
  /\ \E d \in ScanCalls : scan[d].req = "pending" /\ isInitialized

====
